---- MODULE Spec2Model ----
(***************************************************************************)
(* A model of Stream_Analyzer (src/src/stream_analyzer.py): the streaming  *)
(* spectral-feature pipeline with its dirty-flag memoisation.              *)
(*                                                                         *)
(* Numbers.  Floating-point values are modelled as fixed-point integers,   *)
(* or NaN.  A number v is the 1-tuple <<v>>, NaN is the empty tuple, so    *)
(* that NaN propagates through arithmetic and every comparison with NaN    *)
(* is false, as in IEEE-754.  Division rounds down.  Infinities are not    *)
(* modelled: the samples are finite numbers or NaN.                        *)
(*                                                                         *)
(* Vectors are functions over 0..n-1 (Python's indexing); ring buffers     *)
(* hold sequences of rows.                                                 *)
(*                                                                         *)
(* Fields that no method reads back (strongest_frequency, delays,          *)
(* FFT_window_size_ms, log_features = False) are left out.                 *)
(***************************************************************************)
EXTENDS Integers, Sequences, FiniteSets, TLC

VARIABLES
    args,       \* the arguments the constructor was called with
    phase,      \* "ready" when the constructor returned, "failed" when it raised
    self,       \* the analyzer instance: a record of the fields of Stream_Analyzer
    ret,        \* the tuple returned by the last get_audio_features call, or NoFrame
    op,         \* the outcome of the last call made on the analyzer
    in_data,    \* the frame passed to the last append_data call
    finite_input, \* whether every sample taken in so far was a finite number
    n_appends,  \* number of append_data calls that returned normally
    n_runs,     \* pipeline executions since the last append_data call
    serialised, \* whether the integrating system serialises the two contexts
    pcP,        \* producer context: position inside append_data
    pcC,        \* consumer context: position inside get_audio_features
    window,     \* consumer context: latest_data_window of update_features
    n_written,  \* number of frames written into the sample buffer
    n_read,     \* value of n_written at the last window read of the pipeline
    raw_history \* the spectra of line 102, one per pipeline execution, oldest first

vars == <<args, phase, self, ret, op, in_data, finite_input, n_appends, n_runs, serialised, pcP, pcC,
          window, n_written, n_read, raw_history>>

---------------------------------------------------------------------------
(* Bounds of the model *)

\* Largest number of append_data calls in a behaviour.
MaxAppends == 3

---------------------------------------------------------------------------
(* Floating-point values *)

NaN == <<>>
Num(v) == <<v>>
IsNaN(x) == x = <<>>
Val(x) == x[1]
IsFinite(x) == ~IsNaN(x)

FAdd(x, y) == IF IsNaN(x) \/ IsNaN(y) THEN NaN ELSE Num(Val(x) + Val(y))
FScale(c, x) == IF IsNaN(x) THEN NaN ELSE Num(c * Val(x))
\* x / n; 0 / 0 is NaN (numpy's mean of an empty selection)
FDiv(x, n) == IF IsNaN(x) \/ n = 0 THEN NaN ELSE Num(Val(x) \div n)
\* x < y, false when either is NaN
FLess(x, y) == IsFinite(x) /\ IsFinite(y) /\ Val(x) < Val(y)
\* x >= y, false when either is NaN
FGeq(x, y) == IsFinite(x) /\ IsFinite(y) /\ Val(x) >= Val(y)
\* np.maximum: NaN when either operand is NaN
FMaximum(x, y) == IF IsNaN(x) \/ IsNaN(y) THEN NaN
                  ELSE IF Val(x) >= Val(y) THEN x ELSE y

Abs(n) == IF n < 0 THEN -n ELSE n
Max(S) == CHOOSE m \in S : \A x \in S : x <= m
Min(S) == CHOOSE m \in S : \A x \in S : m <= x

RECURSIVE Pow(_, _)
Pow(b, e) == IF e = 0 THEN 1 ELSE b * Pow(b, e - 1)

\* Sum of f[i] over the finite set of indices S, with NaN propagation.
RECURSIVE FSum(_, _)
FSum(f, S) == IF S = {} THEN Num(0)
              ELSE LET i == CHOOSE j \in S : TRUE
                   IN  FAdd(f[i], FSum(f, S \ {i}))

\* np.mean of the entries of vector f selected by the index set S.
FMean(f, S) == FDiv(FSum(f, S), Cardinality(S))

\* A vector (function over 0..n-1) of n copies of x.
Fill(n, x) == [i \in 0 .. n - 1 |-> x]
VLen(f) == Cardinality(DOMAIN f)

---------------------------------------------------------------------------
(* utils: round_up_to_even and the ring buffer numpy_data_buffer *)

\* ceil(p / q) for q > 0
CeilDiv(p, q) == -((-p) \div q)

\* round_up_to_even(p / q): the smallest even integer >= p / q
round_up_to_even(p, q) == 2 * CeilDiv(p, 2 * q)

\* numpy_data_buffer(n_windows, samples_per_window): a fixed-capacity ring of
\* rows, oldest first.
RingNew(n_windows, samples_per_window) ==
    [n_windows |-> n_windows, samples_per_window |-> samples_per_window,
     rows |-> <<>>]

\* A row of the wrong length is refused by the ring.
RingRejects(ring, row) == VLen(row) # ring.samples_per_window

\* append_data of the ring: push a row, discarding the oldest once full.
RingAppend(ring, row) ==
    LET all == Append(ring.rows, row)
    IN  [ring EXCEPT !.rows = IF Len(all) > ring.n_windows THEN Tail(all) ELSE all]

\* The rows of the ring concatenated into one sequence of samples, oldest first.
RECURSIVE Flatten(_)
Flatten(rows) ==
    IF rows = <<>> THEN <<>>
    ELSE [k \in 1 .. VLen(Head(rows)) |-> Head(rows)[k - 1]] \o Flatten(Tail(rows))

\* The last n entries of sequence s (all of s when it is shorter).
LastN(s, n) == IF Len(s) <= n THEN s ELSE SubSeq(s, Len(s) - n + 1, Len(s))

\* get_most_recent(n) of a one-dimensional ring: the newest n samples in
\* chronological order, fewer before warm-up.
RingMostRecentSamples(ring, n) == LastN(Flatten(ring.rows), n)

\* get_most_recent(n) of a two-dimensional ring: the newest n rows.
RingMostRecentRows(ring, n) == LastN(ring.rows, n)

\* get_buffer_data: the rows currently held.
RingBufferData(ring) == ring.rows

---------------------------------------------------------------------------
(* Collaborators outside the analyzer: getFFT, get_smoothing_filter, savgol_filter *)

\* Weighted sum of the samples of a window, the weight of sample n in
\* spectrum line i being -1, 0 or 1.
RECURSIVE Correlate(_, _, _)
Correlate(samples, i, n) ==
    IF n > Len(samples) THEN 0
    ELSE ((((i + 1) * n) % 3) - 1) * Val(samples[n]) + Correlate(samples, i, n + 1)

\* getFFT(data, rate, chunk_size): a magnitude spectrum of chunk_size / 2 lines,
\* each a non-negative function of the window; NaN samples make it NaN.
getFFT(samples, FFT_window_size) ==
    [i \in 0 .. (FFT_window_size \div 2) - 1 |->
        IF \E n \in 1 .. Len(samples) : IsNaN(samples[n]) THEN NaN
        ELSE Num(Abs(Correlate(samples, i, 1)))]

\* The kernels get_smoothing_filter may return: weight vectors, oldest frame first.
Kernels == {<<1, 3>>, <<2, 1, 1>>}

\* savgol_filter(x, 5, 3) with scipy's default mode "interp": the least-squares
\* cubic through each window of 5 points, evaluated at the window's centre, and
\* at the first and last two points the cubic through the first and last 5.
\* The rows are 70 times the projection onto cubics of 5 equally spaced points.
SavgolRows ==
    <<  <<69, 4, -6, 4, -1>>, <<4, 54, 24, -16, 4>>, <<-6, 24, 34, 24, -6>>,
        <<4, -16, 24, 54, 4>>, <<-1, 4, -6, 4, 69>> >>

SavgolAt(x, first, row) ==
    (  SavgolRows[row][1] * Val(x[first]) + SavgolRows[row][2] * Val(x[first + 1])
     + SavgolRows[row][3] * Val(x[first + 2]) + SavgolRows[row][4] * Val(x[first + 3])
     + SavgolRows[row][5] * Val(x[first + 4]) ) \div 70

\* savgol_filter over a vector of finite numbers, for window_length 5 and
\* polyorder 3 (the only width above 3 that the bin counts of the model give).
savgol_filter(x, window_length, polyorder) ==
    LET n == VLen(x)
    IN  [i \in 0 .. n - 1 |->
            IF i < 2 THEN Num(SavgolAt(x, 0, i + 1))
            ELSE IF i > n - 3 THEN Num(SavgolAt(x, n - 5, 5 - (n - 1 - i)))
            ELSE Num(SavgolAt(x, i - 2, 3))]

---------------------------------------------------------------------------
(* Stream_Analyzer.__init__ *)

\* Settings hardcoded in the constructor.
rolling_stats_window_s == 20
fft_fps == 30
\* equalizer_strength = 0.20, as a percentage
equalizer_strength_pct == 20
apply_frequency_smoothing == TRUE

\* filter_width = round_up_to_even(0.03 * n_frequency_bins) - 1
FilterWidth(n_frequency_bins) == round_up_to_even(3 * n_frequency_bins, 100) - 1

\* FFT_window_size = round_up_to_even(rate * FFT_window_size_ms / 1000)
FFTWindowSize(a) == round_up_to_even(a.rate * a.FFT_window_size_ms, 1000)

\* int(FFT_window_size / 2), Python's int() truncating towards zero
SpectrumLength(a) ==
    LET W == FFTWindowSize(a) IN IF W >= 0 THEN W \div 2 ELSE -((-W) \div 2)

\* update_window_n_frames = round_up_to_even(rate / updates_per_second)
UpdateWindowNFrames(a) == round_up_to_even(a.rate, a.updates_per_second)

\* DataWindowsToBuffer with the quotient rounded down.
DataWindowsToBufferFloor(a) ==
    Max({1, FFTWindowSize(a) \div UpdateWindowNFrames(a)})

\* data_windows_to_buffer = max(1, ceil(FFT_window_size / update_window_n_frames))
DataWindowsToBuffer(a) ==
    Max({1, CeilDiv(FFTWindowSize(a), UpdateWindowNFrames(a))})

\* The raw bin id of spectrum index i: with x = L^(-i/(L-1)), line 61 gives
\* L*x - 1 and line 62 rounds B*(1 - x) to the nearest integer, ties to even.
\* B*(1 - x) > k - 1/2 is x < (2B - 2k + 1) / 2B, and raising both sides to the
\* power L - 1 gives (2B)^(L-1) < L^i * (2B - 2k + 1)^(L-1), in integers.
RoundsToAtLeast(k, i, L, B) ==
    LET lhs == Pow(2 * B, L - 1)
        rhs == Pow(L, i) * Pow(2 * B - 2 * k + 1, L - 1)
    IN  lhs < rhs \/ (lhs = rhs /\ k % 2 = 0)

RawBinId(i, L, B) ==
    IF L = 1 THEN 0
    ELSE Max({0} \cup {k \in 1 .. B : RoundsToAtLeast(k, i, L, B)})

\* fftx_bin_indices after line 63: min(own index, raw id - smallest raw id)
FftxBinIndices(L, B) ==
    LET raw == [i \in 0 .. L - 1 |-> RawBinId(i, L, B)]
        lowest == Min({raw[i] : i \in 0 .. L - 1})
    IN  [i \in 0 .. L - 1 |-> Min({i, raw[i] - lowest})]

\* fftx_indices_per_bin: np.where(fftx_bin_indices == bin_index) for each bin
FftxIndicesPerBin(ids, B) ==
    [b \in 0 .. B - 1 |-> {i \in DOMAIN ids : ids[i] = b}]

\* fftx = arange(L) * rate / FFT_window_size
Fftx(a) ==
    [i \in 0 .. SpectrumLength(a) - 1 |-> Num((i * a.rate) \div FFTWindowSize(a))]

\* power_normalization_coefficients: a curve rising from 1 with the index
PowerNormalizationCoefficients(L) == [i \in 0 .. L - 1 |-> 1 + i]

\* The constructor raises: rate = 0 divides by zero (line 42), a negative
\* spectrum length is refused by np.ones (line 43), and with an empty
\* spectrum np.max of an empty array raises (line 62).
ConstructorRaises(a) == a.rate = 0 \/ SpectrumLength(a) <= 0

\* SmoothingEnabled that takes a length of 0 as enabled.
SmoothingEnabledAtZero(smoothing_length_ms) == smoothing_length_ms >= 0

\* Lines 55 and 106: if self.smoothing_length_ms > 0
SmoothingEnabled(smoothing_length_ms) == smoothing_length_ms > 0

\* InitialBufferIsUpdated that starts the analyzer DIRTY.
InitialBufferIsUpdatedDirty == TRUE

\* Line 87: self.buffer_is_updated = False
InitialBufferIsUpdated == FALSE

\* The instance a successful constructor leaves behind.
NewAnalyzer(a) ==
    LET L == SpectrumLength(a)
        B == a.n_frequency_bins
        ids == FftxBinIndices(L, B)
        per_bin == FftxIndicesPerBin(ids, B)
        fftx == Fftx(a)
    IN  [ n_frequency_bins |-> B,
          rate |-> a.rate,
          filter_width |-> FilterWidth(B),
          FFT_window_size |-> FFTWindowSize(a),
          fft |-> Fill(L, Num(1)),
          fftx |-> fftx,
          update_window_n_frames |-> UpdateWindowNFrames(a),
          data_windows_to_buffer |-> DataWindowsToBuffer(a),
          data_buffer |-> RingNew(DataWindowsToBuffer(a), UpdateWindowNFrames(a)),
          smoothing_length_ms |-> a.smoothing_length_ms,
          smoothing_kernel |->
              IF SmoothingEnabled(a.smoothing_length_ms) THEN <<a.kernel>> ELSE <<>>,
          feature_buffer |->
              IF SmoothingEnabled(a.smoothing_length_ms) THEN <<RingNew(Len(a.kernel), L)>> ELSE <<>>,
          fftx_bin_indices |-> ids,
          frequency_bin_energies |-> Fill(B, Num(0)),
          frequency_bin_centres |-> [b \in 0 .. B - 1 |-> FMean(fftx, per_bin[b])],
          fftx_indices_per_bin |-> per_bin,
          num_ffts |-> 0,
          power_normalization_coefficients |-> PowerNormalizationCoefficients(L),
          rolling_bin_values |-> RingNew(rolling_stats_window_s * fft_fps, B),
          bin_mean_values |-> Fill(B, Num(1)),
          buffer_is_updated |-> InitialBufferIsUpdated ]

---------------------------------------------------------------------------
(* Stream_Analyzer.update_rolling_stats *)

\* np.mean(rows, axis=0): the mean of each column over the rows held.
PerBinMeans(rows, B) ==
    [b \in 0 .. B - 1 |->
        FMean([k \in 1 .. Len(rows) |-> rows[k][b]], 1 .. Len(rows))]

\* (1 - equalizer_strength) * np.mean(per-bin means)
EqualizerFloor(means) ==
    FDiv(FScale(100 - equalizer_strength_pct, FMean(means, DOMAIN means)), 100)

\* update_rolling_stats that also divides the bin energies by the new means.
update_rolling_stats_equalizing(s) ==
    LET rolling == RingAppend(s.rolling_bin_values, s.frequency_bin_energies)
        means == PerBinMeans(RingBufferData(rolling), s.n_frequency_bins)
        floor == EqualizerFloor(means)
        bin_means == [b \in 0 .. s.n_frequency_bins - 1 |-> FMaximum(floor, means[b])]
    IN  [s EXCEPT !.rolling_bin_values = rolling,
                  !.bin_mean_values = bin_means,
                  !.frequency_bin_energies =
                      [b \in DOMAIN @ |->
                          IF IsNaN(@[b]) \/ IsNaN(bin_means[b]) \/ bin_means[b] = Num(0)
                          THEN NaN
                          ELSE Num(Val(@[b]) \div Val(bin_means[b]))]]

update_rolling_stats(s) ==
    LET rolling == RingAppend(s.rolling_bin_values, s.frequency_bin_energies)
        means == PerBinMeans(RingBufferData(rolling), s.n_frequency_bins)
        floor == EqualizerFloor(means)
    IN  [s EXCEPT !.rolling_bin_values = rolling,
                  !.bin_mean_values =
                      [b \in 0 .. s.n_frequency_bins - 1 |-> FMaximum(floor, means[b])]]

---------------------------------------------------------------------------
(* Stream_Analyzer.update_features *)

\* LatestDataWindow that leaves out the newest frame.
LatestDataWindowStale(s) ==
    LastN(Flatten(SubSeq(s.data_buffer.rows, 1, Len(s.data_buffer.rows) - 1)),
          s.FFT_window_size)

\* latest_data_window = data_buffer.get_most_recent(FFT_window_size)
LatestDataWindow(s) == RingMostRecentSamples(s.data_buffer, s.FFT_window_size)

\* getFFT(...) * power_normalization_coefficients
RawSpectrum(s, latest_data_window) ==
    LET spectrum == getFFT(latest_data_window, s.FFT_window_size)
    IN  [i \in DOMAIN spectrum |->
            FScale(s.power_normalization_coefficients[i], spectrum[i])]

\* np.mean(smoothing_kernel * buffered_features, axis=0)
KernelAverage(kernel, frames) ==
    [i \in DOMAIN frames[1] |->
        FMean([k \in 1 .. Len(frames) |-> FScale(kernel[k], frames[k][i])],
              1 .. Len(frames))]

\* TemporalSmoothing that reads the buffered spectra before the push.
TemporalSmoothingStale(s, raw) ==
    IF SmoothingEnabled(s.smoothing_length_ms)
    THEN LET kernel == s.smoothing_kernel[1]
             buffered_features == RingMostRecentRows(s.feature_buffer[1], Len(kernel))
         IN  [feature_buffer |-> <<RingAppend(s.feature_buffer[1], raw)>>,
              fft |-> IF Len(buffered_features) = Len(kernel)
                      THEN KernelAverage(kernel, buffered_features)
                      ELSE raw]
    ELSE [feature_buffer |-> s.feature_buffer, fft |-> raw]

\* The temporal smoothing of lines 106-111: the feature buffer after the push,
\* and the spectrum it yields.
TemporalSmoothing(s, raw) ==
    IF SmoothingEnabled(s.smoothing_length_ms)
    THEN LET kernel == s.smoothing_kernel[1]
             buffer == RingAppend(s.feature_buffer[1], raw)
             buffered_features == RingMostRecentRows(buffer, Len(kernel))
         IN  [feature_buffer |-> <<buffer>>,
              fft |-> IF Len(buffered_features) = Len(kernel)
                      THEN KernelAverage(kernel, buffered_features)
                      ELSE raw]
    ELSE [feature_buffer |-> s.feature_buffer, fft |-> raw]

\* The loop of lines 116-117: the mean of the spectrum over each bin's indices.
BinEnergies(s, fft) ==
    [b \in 0 .. s.n_frequency_bins - 1 |-> FMean(fft, s.fftx_indices_per_bin[b])]

\* update_features once latest_data_window has been read (lines 100-117)
ComputeFeatures(s, latest_data_window) ==
    LET smoothed == TemporalSmoothing(s, RawSpectrum(s, latest_data_window))
    IN  [s EXCEPT !.fft = smoothed.fft,
                  !.num_ffts = @ + 1,
                  !.feature_buffer = smoothed.feature_buffer,
                  !.frequency_bin_energies = BinEnergies(s, smoothed.fft)]

update_features(s) == ComputeFeatures(s, LatestDataWindow(s))

---------------------------------------------------------------------------
(* Stream_Analyzer.append_data and get_audio_features *)

\* Line 127: data_buffer.append_data(in_data)
WriteFrame(s, frame) == [s EXCEPT !.data_buffer = RingAppend(@, frame)]

\* SetFlag that flips the flag.
SetFlagToggle(s) == [s EXCEPT !.buffer_is_updated = ~@]

\* SetFlag that leaves the flag as it was.
SetFlagForgotten(s) == s

\* Line 128: buffer_is_updated = True
SetFlag(s) == [s EXCEPT !.buffer_is_updated = TRUE]

\* append_data that sets the flag before the ring is written.
append_data_flag_first(s, frame) ==
    IF RingRejects(s.data_buffer, frame)
    THEN [raised |-> TRUE, self |-> SetFlag(s)]
    ELSE [raised |-> FALSE, self |-> WriteFrame(SetFlag(s), frame)]

\* append_data: the ring refuses a frame of the wrong length before anything
\* is written, and the exception leaves append_data before the flag is set.
append_data(s, frame) ==
    IF RingRejects(s.data_buffer, frame)
    THEN [raised |-> TRUE, self |-> s]
    ELSE [raised |-> FALSE, self |-> SetFlag(WriteFrame(s, frame))]

\* np.nan_to_num: NaN becomes 0
nan_to_num(x) == [b \in DOMAIN x |-> IF IsNaN(x[b]) THEN Num(0) ELSE x[b]]

\* ClampNegatives that clamps nothing.
ClampNothing(x) == x

\* x[x < 0] = 0
ClampNegatives(x) == [b \in DOMAIN x |-> IF FLess(x[b], Num(0)) THEN Num(0) ELSE x[b]]

\* FrequencySmoothing that also filters at a width of 3.
FrequencySmoothingAtThree(s, x) ==
    IF apply_frequency_smoothing /\ s.filter_width >= 3
    THEN savgol_filter(x, s.filter_width, 3)
    ELSE x

\* Lines 136-138: the cross-bin filter, applied when filter_width > 3.
FrequencySmoothing(s, x) ==
    IF apply_frequency_smoothing /\ s.filter_width > 3
    THEN savgol_filter(x, s.filter_width, 3)
    ELSE x

\* PostProcess with the clamp moved before the filter.
PostProcessClampFirst(s) ==
    [s EXCEPT !.frequency_bin_energies =
        FrequencySmoothing(s, ClampNegatives(nan_to_num(@)))]

\* Lines 135-139: sanitise, filter, clamp.
PostProcess(s) ==
    [s EXCEPT !.frequency_bin_energies =
        ClampNegatives(FrequencySmoothing(s, nan_to_num(@)))]

\* ClearFlag that leaves the flag set.
ClearFlagForgotten(s) == s

\* Line 140
ClearFlag(s) == [s EXCEPT !.buffer_is_updated = FALSE]

\* MustRecompute that ignores the flag.
MustRecomputeAlways(s) == TRUE

\* Line 131: whether the pipeline runs
MustRecompute(s) == s.buffer_is_updated

\* Line 142: the returned tuple
FeatureFrame(s) == <<s.fftx, s.fft, s.frequency_bin_centres, s.frequency_bin_energies>>

\* The analyzer after a get_audio_features call.
get_audio_features(s) ==
    IF MustRecompute(s)
    THEN ClearFlag(PostProcess(update_rolling_stats(update_features(s))))
    ELSE s

---------------------------------------------------------------------------
(* Inputs *)

Rates == {-80, 0, 80, 160}
WindowMs == {0, 50}
UpdateRates == {10, 30, 40}
SmoothingMs == {-50, 0, 50}
BinCounts == {1, 2, 3, 5, 67, 134}

\* The constructor's arguments; kernel is what get_smoothing_filter returns
\* for them, <<>> when it is not called.
ConstructorArgs ==
    {a \in [rate : Rates, FFT_window_size_ms : WindowMs,
            updates_per_second : UpdateRates, smoothing_length_ms : SmoothingMs,
            n_frequency_bins : BinCounts, kernel : Kernels \cup {<<>>}] :
        (a.kernel = <<>>) <=> (a.smoothing_length_ms <= 0)}

FrameKinds == {"silence", "tone", "burst", "nan"}

\* A frame of n samples; the kinds differ in their newest samples.
FrameOf(kind, n) ==
    [k \in 0 .. n - 1 |->
        CASE kind = "silence" -> Num(0)
          [] kind = "tone"    -> Num((k % 3) + 1)
          [] kind = "burst"   -> IF k = n - 1 THEN Num(5) ELSE Num(0)
          [] kind = "nan"     -> IF k = n - 1 THEN NaN ELSE Num(1)]

\* The frames a producer may pass: every kind at the configured length, and
\* frames one sample too long or too short.
Frames(s) ==
    {FrameOf(kind, s.update_window_n_frames) : kind \in FrameKinds}
    \cup {FrameOf("tone", s.update_window_n_frames + 1),
          FrameOf("tone", s.update_window_n_frames - 1)}

NoFrame == <<>>
NoAnalyzer == <<>>

AllFinite(frame) == \A k \in DOMAIN frame : IsFinite(frame[k])

---------------------------------------------------------------------------
(* The analyzer used from one context, or with the calls serialised *)

Constructed(a) ==
    /\ args = a
    /\ IF ConstructorRaises(a)
       THEN phase = "failed" /\ self = NoAnalyzer /\ op = "construct_error"
       ELSE phase = "ready" /\ self = NewAnalyzer(a) /\ op = "construct"
    /\ ret = NoFrame /\ in_data = NoFrame /\ finite_input = TRUE
    /\ n_appends = 0 /\ n_runs = 0
    /\ pcP = "idle" /\ pcC = "idle"
    /\ window = <<>>
    /\ n_written = 0 /\ n_read = 0
    /\ raw_history = <<>>

Init == serialised = TRUE /\ \E a \in ConstructorArgs : Constructed(a)

AppendData ==
    /\ phase = "ready" /\ pcP = "idle" /\ pcC = "idle"
    /\ n_appends < MaxAppends
    /\ \E frame \in Frames(self) :
          LET r == append_data(self, frame)
          IN  /\ self' = r.self
              /\ in_data' = frame
              /\ finite_input' = (finite_input /\ (r.raised \/ AllFinite(frame)))
              /\ op' = IF r.raised THEN "append_error" ELSE "append"
              /\ n_appends' = IF r.raised THEN n_appends ELSE n_appends + 1
              /\ n_written' = IF r.raised THEN n_written ELSE n_written + 1
              /\ n_runs' = IF r.raised THEN n_runs ELSE 0
    /\ UNCHANGED <<args, phase, ret, serialised, pcP, pcC, window, n_read, raw_history>>

GetAudioFeatures ==
    /\ phase = "ready" /\ pcP = "idle" /\ pcC = "idle"
    /\ self' = get_audio_features(self)
    /\ ret' = FeatureFrame(self')
    /\ op' = IF self'.num_ffts # self.num_ffts THEN "get_dirty" ELSE "get_clean"
    /\ n_runs' = n_runs + (self'.num_ffts - self.num_ffts)
    /\ n_read' = IF self'.num_ffts # self.num_ffts THEN n_written ELSE n_read
    /\ raw_history' = IF self'.num_ffts # self.num_ffts
                      THEN Append(raw_history, RawSpectrum(self, LatestDataWindow(self)))
                      ELSE raw_history
    /\ UNCHANGED <<args, phase, finite_input, in_data, serialised, pcP, pcC, window,
                   n_appends, n_written>>

Next == AppendData \/ GetAudioFeatures

Spec == Init /\ [][Next]_vars

---------------------------------------------------------------------------
(* The analyzer used from two contexts, statement by statement: a producer *)
(* in append_data and a consumer in get_audio_features.  When serialised   *)
(* holds, the integrating system lets a call start only while the other    *)
(* context is outside its call.                                            *)

ConcurrentArgs ==
    {a \in ConstructorArgs :
        /\ a.rate = 80 /\ a.FFT_window_size_ms = 50 /\ a.updates_per_second = 40
        /\ a.n_frequency_bins \in {1, 2}}

InitConc ==
    /\ serialised \in BOOLEAN
    /\ \E a \in ConcurrentArgs : Constructed(a)

\* Line 127, entered from outside the call.
P_Write ==
    /\ phase = "ready" /\ pcP = "idle" /\ n_written < MaxAppends
    /\ serialised => pcC = "idle"
    /\ \E frame \in Frames(self) :
          /\ in_data' = frame
          /\ IF RingRejects(self.data_buffer, frame)
             THEN /\ op' = "append_error"
                  /\ UNCHANGED <<self, pcP, n_written, finite_input>>
             ELSE /\ self' = WriteFrame(self, frame)
                  /\ finite_input' = (finite_input /\ AllFinite(frame))
                  /\ pcP' = "set_flag"
                  /\ n_written' = n_written + 1
                  /\ UNCHANGED op
    /\ UNCHANGED <<args, phase, ret, n_appends, n_runs, serialised, pcC, window,
                   n_read, raw_history>>

\* Line 128, then the call returns.
P_SetFlag ==
    /\ pcP = "set_flag"
    /\ self' = SetFlag(self)
    /\ pcP' = "idle"
    /\ op' = "append"
    /\ n_appends' = n_appends + 1
    /\ n_runs' = 0
    /\ UNCHANGED <<args, phase, finite_input, ret, in_data, serialised, pcC, window,
                   n_written, n_read, raw_history>>

\* Line 131, entered from outside the call.
C_Test ==
    /\ phase = "ready" /\ pcC = "idle"
    /\ serialised => pcP = "idle"
    /\ pcC' = IF MustRecompute(self) THEN "read_window" ELSE "return_cached"
    /\ UNCHANGED <<args, phase, finite_input, self, ret, op, in_data, n_appends, n_runs,
                   serialised, pcP, window, n_written, n_read, raw_history>>

\* Line 98
C_ReadWindow ==
    /\ pcC = "read_window"
    /\ window' = LatestDataWindow(self)
    /\ n_read' = n_written
    /\ pcC' = "compute"
    /\ UNCHANGED <<args, phase, finite_input, self, ret, op, in_data, n_appends, n_runs,
                   serialised, pcP, n_written, raw_history>>

\* Lines 100-117
C_Compute ==
    /\ pcC = "compute"
    /\ self' = ComputeFeatures(self, window)
    /\ n_runs' = n_runs + 1
    /\ pcC' = "rolling_stats"
    /\ raw_history' = Append(raw_history, RawSpectrum(self, window))
    /\ UNCHANGED <<args, phase, finite_input, ret, op, in_data, n_appends, serialised,
                   pcP, window, n_written, n_read>>

\* Line 133
C_RollingStats ==
    /\ pcC = "rolling_stats"
    /\ self' = update_rolling_stats(self)
    /\ pcC' = "post_process"
    /\ UNCHANGED <<args, phase, finite_input, ret, op, in_data, n_appends, n_runs,
                   serialised, pcP, window, n_written, n_read, raw_history>>

\* Lines 135-139
C_PostProcess ==
    /\ pcC = "post_process"
    /\ self' = PostProcess(self)
    /\ pcC' = "clear_flag"
    /\ UNCHANGED <<args, phase, finite_input, ret, op, in_data, n_appends, n_runs,
                   serialised, pcP, window, n_written, n_read, raw_history>>

\* Line 140
C_ClearFlag ==
    /\ pcC = "clear_flag"
    /\ self' = ClearFlag(self)
    /\ pcC' = "return_fresh"
    /\ UNCHANGED <<args, phase, finite_input, ret, op, in_data, n_appends, n_runs,
                   serialised, pcP, window, n_written, n_read, raw_history>>

\* Line 142
C_Return ==
    /\ pcC \in {"return_cached", "return_fresh"}
    /\ ret' = FeatureFrame(self)
    /\ op' = IF pcC = "return_fresh" THEN "get_dirty" ELSE "get_clean"
    /\ pcC' = "idle"
    /\ UNCHANGED <<args, phase, finite_input, self, in_data, n_appends, n_runs,
                   serialised, pcP, window, n_written, n_read, raw_history>>

NextConc ==
    \/ P_Write \/ P_SetFlag
    \/ C_Test \/ C_ReadWindow \/ C_Compute \/ C_RollingStats \/ C_PostProcess
    \/ C_ClearFlag \/ C_Return

SpecConc == InitConc /\ [][NextConc]_vars

---------------------------------------------------------------------------
(* Properties *)

Ready == phase = "ready"
\* The step is a get_audio_features call that returned.
GetReturned == op' \in {"get_clean", "get_dirty"}
\* The bin energies as aggregated by the last pipeline execution, before
\* sanitisation: the newest row of the rolling history.
LastAggregated == self.rolling_bin_values.rows[Len(self.rolling_bin_values.rows)]

\* C1: a get_audio_features call made while the analyzer is CLEAN runs no
\* pipeline stage: it returns the cached tuple, equal to the tuple of the
\* previous call, and leaves num_ffts, the spectrum history, the rolling bin
\* history and the equalizer means as they were.
C1_CleanGetReturnsCache ==
    [][(Ready /\ ~self.buffer_is_updated /\ GetReturned) =>
          /\ op' = "get_clean"
          /\ ret' = FeatureFrame(self)
          /\ (ret # NoFrame => ret' = ret)
          /\ self'.num_ffts = self.num_ffts
          /\ self'.feature_buffer = self.feature_buffer
          /\ self'.rolling_bin_values = self.rolling_bin_values
          /\ self'.bin_mean_values = self.bin_mean_values]_vars

C1_Witness ==
    Ready /\ op = "get_clean" /\ self.num_ffts = 2 /\ ret = FeatureFrame(self)

\* C2: the number of pipeline executions never exceeds the number of
\* append_data calls, and at most one pipeline execution happens between two
\* consecutive append_data calls, however often get_audio_features is polled.
C2_AtMostOneRunPerAppend ==
    Ready => self.num_ffts <= n_appends /\ n_runs <= 1

C2_Witness ==
    Ready /\ op = "get_clean" /\ n_runs = 1 /\ self.num_ffts = 2 /\ n_appends = 3

\* C3: a get_audio_features call made while the analyzer is DIRTY runs
\* spectrum extraction, temporal smoothing, bin aggregation, NaN sanitisation,
\* the cross-bin filter stage and the negative clamp in this order, each once:
\* one spectrum is pushed to the smoothing history, one aggregated bin-energy
\* vector to the rolling history, num_ffts grows by one, and the call returns
\* the new frame and leaves the analyzer CLEAN.
C3_DirtyGetRunsPipelineOnce ==
    [][(Ready /\ self.buffer_is_updated /\ GetReturned) =>
          LET raw == RawSpectrum(self, LatestDataWindow(self))
              smoothed == TemporalSmoothing(self, raw)
              aggregated == BinEnergies(self, smoothed.fft)
          IN  /\ op' = "get_dirty"
              /\ self'.num_ffts = self.num_ffts + 1
              /\ self'.fft = smoothed.fft
              /\ self'.feature_buffer = smoothed.feature_buffer
              /\ self'.rolling_bin_values =
                     RingAppend(self.rolling_bin_values, aggregated)
              /\ Len(self'.rolling_bin_values.rows) =
                     Len(self.rolling_bin_values.rows) + 1
              /\ self'.frequency_bin_energies =
                     ClampNegatives(FrequencySmoothing(self, nan_to_num(aggregated)))
              /\ ret' = FeatureFrame(self')
              /\ ~self'.buffer_is_updated]_vars

\* A pipeline execution in which the order of filter and clamp shows: the
\* filter was applied and the clamp changed its result.
C3_Witness ==
    /\ Ready /\ op = "get_dirty" /\ self.filter_width > 3
    /\ self.smoothing_length_ms > 0
    /\ LET filtered == FrequencySmoothing(self, nan_to_num(LastAggregated))
       IN  /\ \E b \in DOMAIN filtered : FLess(filtered[b], Num(0))
           /\ self.frequency_bin_energies = ClampNegatives(filtered)

\* C4: every entry of the bin-energy vector returned by get_audio_features is
\* finite and >= 0, in every reachable state, the call made before any
\* append_data included.
C4_ReturnedEnergiesFiniteNonNegative ==
    (Ready /\ ret # NoFrame) =>
        \A b \in DOMAIN ret[4] : IsFinite(ret[4][b]) /\ Val(ret[4][b]) >= 0

\* A returned frame whose aggregation gave NaN for an empty bin and whose
\* filter overshot below zero.
C4_Witness ==
    /\ Ready /\ ret # NoFrame /\ self.num_ffts > 0 /\ ~self.buffer_is_updated
    /\ \E b \in DOMAIN LastAggregated :
          self.fftx_indices_per_bin[b] = {} /\ IsNaN(LastAggregated[b])
    /\ \E b \in DOMAIN LastAggregated :
          FLess(FrequencySmoothing(self, nan_to_num(LastAggregated))[b], Num(0))

\* C5: after every equalizer update, every entry of bin_mean_values is at
\* least (1 - equalizer_strength) * mean(per-bin means of the rolling history),
\* also when a bin is empty and its aggregated energy is NaN (stated for
\* frames of finite samples).
C5_EqualizerFloor ==
    (Ready /\ self.num_ffts > 0 /\ finite_input) =>
        LET means == PerBinMeans(RingBufferData(self.rolling_bin_values),
                                 self.n_frequency_bins)
        IN  \A b \in DOMAIN self.bin_mean_values :
                FGeq(self.bin_mean_values[b], EqualizerFloor(means))

\* A configuration is valid when the rate and the window are positive and
\* the bin count is between 1 and the spectrum length.
ValidConfiguration(a) ==
    /\ a.rate > 0
    /\ FFTWindowSize(a) > 0
    /\ a.n_frequency_bins >= 1
    /\ a.n_frequency_bins <= SpectrumLength(a)

\* C6: for every valid spectrum length and bin count, the index sets of the
\* bins 0..B-1 partition the spectrum indices: each index is in exactly one.
C6_BinsPartitionSpectrum ==
    (Ready /\ ValidConfiguration(args)) =>
        \A i \in DOMAIN self.fftx :
            Cardinality({b \in DOMAIN self.fftx_indices_per_bin :
                            i \in self.fftx_indices_per_bin[b]}) = 1

\* C7: every bin centre returned by get_audio_features is a number, 0 for a
\* bin whose index set is empty.
C7_ReturnedCentresDefined ==
    (Ready /\ ret # NoFrame) =>
        \A b \in DOMAIN ret[3] :
            /\ IsFinite(ret[3][b])
            /\ (self.fftx_indices_per_bin[b] = {} => ret[3][b] = Num(0))

C9_InvalidConfigurationRejected ==
    ValidConfiguration(args) \/ phase = "failed"

\* Both contexts are outside their calls.
Quiescent == pcP = "idle" /\ pcC = "idle"

\* The sample buffer holds a frame that no pipeline execution has read.
UnreadFrame == n_written > n_read

\* C10: the analyzer has no lock of its own.  When the integrating system
\* serialises the calls, the analyzer is never CLEAN with a frame in the
\* sample buffer that no pipeline execution has read (the producer being
\* outside its call); with the two contexts interleaved statement by
\* statement such a state is reached, even with both contexts outside their
\* calls.
C10_SerialisedNeverLosesFrame ==
    (Ready /\ serialised /\ pcP = "idle" /\ ~self.buffer_is_updated) => ~UnreadFrame

C10_Witness ==
    Ready /\ ~serialised /\ Quiescent /\ ~self.buffer_is_updated /\ UnreadFrame

\* C11: an append_data call that returns leaves the analyzer DIRTY, whether
\* it was CLEAN or DIRTY before, and changes only the sample ring buffer and
\* the dirty flag: the cached spectrum, the bin energies, the smoothing
\* history, the rolling history, the equalizer means and num_ffts, like every
\* other field, stay as they were, and no pipeline stage runs.
C11_AppendChangesOnlyBufferAndFlag ==
    [][(Ready /\ n_appends' = n_appends + 1) =>
          /\ op' = "append"
          /\ self'.buffer_is_updated
          /\ self'.data_buffer = RingAppend(self.data_buffer, in_data')
          /\ self' = [self EXCEPT !.data_buffer = self'.data_buffer,
                                  !.buffer_is_updated = TRUE]
          /\ self'.fft = self.fft
          /\ self'.frequency_bin_energies = self.frequency_bin_energies
          /\ self'.feature_buffer = self.feature_buffer
          /\ self'.rolling_bin_values = self.rolling_bin_values
          /\ self'.bin_mean_values = self.bin_mean_values
          /\ self'.num_ffts = self.num_ffts
          /\ raw_history' = raw_history
          /\ ret' = ret]_vars

\* Two append_data calls in a row, the second made on a DIRTY analyzer that
\* holds a computed frame.
C11_Witness ==
    /\ Ready /\ op = "append" /\ self.buffer_is_updated
    /\ n_appends = 3 /\ self.num_ffts = 1
    /\ ret = <<self.fftx, self.fft, self.frequency_bin_centres,
               self.frequency_bin_energies>>

\* The raw spectrum of the newest pipeline execution.
NewestRaw == raw_history[Len(raw_history)]

\* C12: with temporal smoothing enabled and a kernel of length K, the
\* spectrum of the n-th pipeline execution is its raw pink-compensated
\* spectrum when n < K, and the kernel-weighted combination of exactly the K
\* most recent raw spectra, oldest first, when n >= K; nothing but spectra
\* produced by pipeline executions enters the combination.
C12_SmoothingWarmUp ==
    (Ready /\ self.smoothing_length_ms > 0 /\ self.num_ffts > 0) =>
        LET kernel == self.smoothing_kernel[1]
            K == Len(kernel)
            n == self.num_ffts
        IN  /\ Len(raw_history) = n
            /\ self.fft = IF n < K
                          THEN raw_history[n]
                          ELSE KernelAverage(kernel,
                                   [k \in 1 .. K |-> raw_history[n - K + k]])

\* The third execution under a kernel of length 3, over three spectra that
\* are not all the same: the first execution past the warm-up.
C12_Witness ==
    /\ Ready /\ op = "get_dirty" /\ self.smoothing_length_ms > 0
    /\ Len(self.smoothing_kernel[1]) = 3 /\ self.num_ffts = 3
    /\ raw_history[1] # raw_history[2] /\ raw_history[2] # raw_history[3]
    /\ self.fft # NewestRaw

\* C13: when smoothing_length_ms <= 0 the constructor creates neither a
\* smoothing kernel nor a history buffer, no pipeline execution creates or
\* touches one, and the spectrum each execution produces and returns is the
\* raw pink-compensated spectrum of the current window.
C13_SmoothingDisabledIsIdentity ==
    (Ready /\ args.smoothing_length_ms <= 0) =>
        /\ self.smoothing_kernel = <<>>
        /\ self.feature_buffer = <<>>
        /\ (self.num_ffts > 0 => self.fft = NewestRaw)
        /\ (op = "get_dirty" => ret[2] = NewestRaw)

\* A second execution without smoothing whose raw spectrum differs from the
\* first one's: an average over the two would have shown.
C13_Witness ==
    /\ Ready /\ args.smoothing_length_ms < 0 /\ op = "get_dirty"
    /\ self.num_ffts = 2 /\ raw_history[1] # raw_history[2]
    /\ ret[2] = raw_history[2] /\ self.feature_buffer = <<>>

\* C14: the equalizer update is a side channel.  update_rolling_stats
\* changes only the rolling history and bin_mean_values and leaves the
\* bin-energy vector as aggregated; the energies a pipeline execution returns
\* are those it would return with the equalizer update skipped: the means
\* are neither multiplied into them nor divided out of them.
C14_EqualizerIsSideChannel ==
    [][(Ready /\ op' = "get_dirty" /\ self'.num_ffts = self.num_ffts + 1) =>
          LET computed == update_features(self)
              updated == update_rolling_stats(computed)
          IN  /\ updated = [computed EXCEPT
                                !.rolling_bin_values = updated.rolling_bin_values,
                                !.bin_mean_values = updated.bin_mean_values]
              /\ updated.frequency_bin_energies = computed.frequency_bin_energies
              /\ self'.rolling_bin_values = updated.rolling_bin_values
              /\ self'.bin_mean_values = updated.bin_mean_values
              /\ self'.frequency_bin_energies =
                     PostProcess(computed).frequency_bin_energies
              /\ ret'[4] = self'.frequency_bin_energies]_vars

\* A second execution that returned a positive energy for a bin whose
\* equalizer mean is a number above 1: dividing by the mean would have shown.
C14_Witness ==
    /\ Ready /\ op = "get_dirty" /\ Len(self.rolling_bin_values.rows) = 2
    /\ \E b \in DOMAIN self.bin_mean_values :
          /\ IsFinite(self.bin_mean_values[b]) /\ Val(self.bin_mean_values[b]) > 1
          /\ FLess(Num(0), ret[4][b])
          /\ ret[4][b] = nan_to_num(LastAggregated)[b]

\* C15: in a pipeline execution the cross-bin filter is applied exactly when
\* apply_frequency_smoothing is set and the width round_up_to_even(0.03 * B) - 1
\* is greater than 3, that is when 0.03 * B > 4; the clamp then runs on the
\* filter's output.  When the width is <= 3 the stage is skipped and the
\* bin energies are the NaN-sanitised aggregated energies.
C15_FilterAppliedIffWidthAboveThree ==
    (Ready /\ self.num_ffts > 0) =>
        LET sanitised == nan_to_num(LastAggregated)
            width == round_up_to_even(3 * self.n_frequency_bins, 100) - 1
        IN  /\ self.filter_width = width
            /\ (width > 3) <=> (3 * self.n_frequency_bins > 400)
            /\ self.frequency_bin_energies =
                   IF apply_frequency_smoothing /\ width > 3
                   THEN ClampNegatives(savgol_filter(sanitised, width, 3))
                   ELSE sanitised
            /\ (op = "get_dirty" => ret[4] = self.frequency_bin_energies)

\* A width of exactly 3: the stage is skipped over bin energies that are not
\* all equal, which the filter would have changed.
C15_Witness ==
    /\ Ready /\ op = "get_dirty" /\ self.filter_width = 3
    /\ ret[4] = nan_to_num(LastAggregated)
    /\ savgol_filter(ret[4], 5, 3) # ret[4]

\* C16: after the monotonic clamp of line 63, in a valid configuration the
\* bin id of spectrum index i is >= 0, at most i, at most B - 1 and
\* non-decreasing in i, the smallest id is 0, and the id equals
\* min(own index, raw id) - smallest raw id.
C16_ClampedBinIds ==
    (Ready /\ ValidConfiguration(args)) =>
        LET L == VLen(self.fftx)
            B == self.n_frequency_bins
            ids == self.fftx_bin_indices
            raw == [i \in 0 .. L - 1 |-> RawBinId(i, L, B)]
            lowest == Min({raw[i] : i \in 0 .. L - 1})
        IN  /\ \A i \in 0 .. L - 1 :
                  /\ ids[i] >= 0
                  /\ ids[i] <= i
                  /\ ids[i] <= B - 1
                  /\ (i > 0 => ids[i - 1] <= ids[i])
                  /\ ids[i] = Min({i, raw[i]}) - lowest
            /\ \E i \in 0 .. L - 1 : ids[i] = 0

\* C17: for a positive sample rate, window duration and update rate, the
\* sample ring buffer is sized to hold at least one frame and at least
\* FFT_window_size samples, so that once data_windows_to_buffer frames have
\* been appended the window a pipeline execution reads has exactly
\* FFT_window_size samples.
C17_BufferHoldsAWindow ==
    (Ready /\ args.rate > 0 /\ args.FFT_window_size_ms > 0
           /\ args.updates_per_second > 0) =>
        /\ self.data_windows_to_buffer >= 1
        /\ self.data_windows_to_buffer * self.update_window_n_frames
               >= self.FFT_window_size
        /\ self.data_buffer.n_windows = self.data_windows_to_buffer
        /\ self.data_buffer.samples_per_window = self.update_window_n_frames
        /\ (n_written >= self.data_windows_to_buffer =>
               Len(LatestDataWindow(self)) = self.FFT_window_size)

\* A pipeline execution over a full ring of two frames of 6 samples, of which
\* the newest 8 make the window: the frame length does not divide the window.
C17_Witness ==
    /\ Ready /\ op = "get_dirty"
    /\ self.FFT_window_size = 8 /\ self.update_window_n_frames = 6
    /\ self.data_windows_to_buffer = 2 /\ Len(self.data_buffer.rows) = 2
    /\ Len(LatestDataWindow(self)) = 8

\* C18: with the calls serialised, in every CLEAN state either nothing was
\* appended and nothing computed, or the cached frame comes from a pipeline
\* execution that read the sample buffer after the most recent append_data:
\* no frame written is unread, and the raw spectrum of the newest execution
\* is the spectrum of the window the buffer holds now.
C18_CleanCacheIsCurrent ==
    (Ready /\ ~self.buffer_is_updated) =>
        /\ n_read = n_written
        /\ n_written = n_appends
        /\ Len(raw_history) = self.num_ffts
        /\ IF n_appends = 0
           THEN self.num_ffts = 0
           ELSE /\ self.num_ffts > 0
                /\ NewestRaw = RawSpectrum(self,
                       RingMostRecentSamples(self.data_buffer, self.FFT_window_size))

\* CLEAN after three appends and two executions with unlike spectra, the
\* second of which read the buffer after the third frame was written.
C18_Witness ==
    /\ Ready /\ ~self.buffer_is_updated /\ op = "get_dirty"
    /\ n_appends = 3 /\ self.num_ffts = 2
    /\ raw_history[1] # raw_history[2]
    /\ in_data = self.data_buffer.rows[Len(self.data_buffer.rows)]

\* C19: the analyzer starts CLEAN; as long as no frame has been appended,
\* get_audio_features runs no pipeline stage (num_ffts stays 0, the rolling
\* history stays as constructed, the equalizer means stay at their initial
\* ones) and returns the frame of the constructor: a spectrum of
\* FFT_window_size / 2 ones and B bin energies of zero.
C19_ColdStartReturnsConstructionFrame ==
    (Ready /\ n_appends = 0) =>
        /\ ~self.buffer_is_updated
        /\ self.num_ffts = 0 /\ raw_history = <<>>
        /\ self.rolling_bin_values =
               RingNew(rolling_stats_window_s * fft_fps, self.n_frequency_bins)
        /\ self.bin_mean_values = Fill(self.n_frequency_bins, Num(1))
        /\ op \in {"construct", "get_clean", "append_error"}
        /\ (ret # NoFrame =>
               /\ ret[2] = Fill(self.FFT_window_size \div 2, Num(1))
               /\ ret[4] = Fill(self.n_frequency_bins, Num(0))
               /\ ret[1] = self.fftx /\ ret[3] = self.frequency_bin_centres)

\* A get_audio_features call that returned before anything was appended.
C19_Witness ==
    /\ Ready /\ n_appends = 0 /\ n_written = 0 /\ op = "get_clean"
    /\ ret # NoFrame /\ VLen(ret[2]) = 4 /\ VLen(ret[4]) = 134

====
